---- MODULE Spec2Model ----
(***************************************************************************)
(* fetch_and_parse.py: capture the calendar API responses of a page while  *)
(* scrolling it (capture_with_playwright), find the event records in the   *)
(* captured bodies (find_event_dicts), flatten them (extract_event_fields, *)
(* parse_capture_to_events) and write them out (main).                     *)
(*                                                                         *)
(* Python values are tagged records: None, bool, int, float, str (a        *)
(* sequence of characters), list, dict (a sequence of <<key, value>> pairs *)
(* in insertion order).  A raised exception is the value Exc(name); a file *)
(* that does not exist has the content Absent.                             *)
(***************************************************************************)
EXTENDS Integers, Sequences, FiniteSets, TLC

VARIABLES
  playwright,    \* whether `from playwright.sync_api import ...` succeeds
  keep_capture,  \* args.keep_capture
  timeout_idle,  \* args.timeout
  pc,            \* position of main / capture_with_playwright
  now,           \* time.time()
  captured,      \* the list `captured` of capture_with_playwright
  last_count,    \* local of the scroll loop
  idle_since,    \* local of the scroll loop
  pending,       \* responses the page has still to deliver (environment)
  arrived,       \* history: every response handed to on_response, in order
  seen_len,      \* history: len(captured) at the previous check of the loop
  seen_grow,     \* history: the time of the last check that saw it longer
  iter,          \* history: <<scrolls, sleeps>> of the iteration under way
  fs,            \* the capture file and the output file
  io,            \* history: the side effects of the run, in order
  num_captures,  \* main: the value capture_with_playwright returned
  parsed,        \* main: (num_caps, events) of parse_capture_to_events
  exit_code,     \* the value main returns
  xfn,           \* function applied to xarg ("none" before the call)
  xarg,          \* input of the function under study
  xres           \* its result

vars == <<playwright, keep_capture, timeout_idle, pc, now, captured, last_count,
          idle_since, pending, arrived, seen_len, seen_grow, iter, fs, io,
          num_captures, parsed, exit_code, xfn, xarg, xres>>

(***************************************************************************)
(* Bounds of the model.                                                    *)
(***************************************************************************)
MaxResponses == 2   \* responses the page delivers in one run
MaxTimeout == 1     \* largest --timeout
MaxSleep == 2       \* time.sleep(1) takes 1 .. MaxSleep ticks
MaxDepth == 2       \* wrappers around an event record in a body
MaxCaps == 2        \* captures in a capture file given to the extractor

(***************************************************************************)
(* Python values.                                                          *)
(***************************************************************************)
JNull == [t |-> "null"]
JBool(b) == [t |-> "bool", b |-> b]
JNum(n) == [t |-> "num", n |-> n]
JStr(s) == [t |-> "str", s |-> s]
JSeq(items) == [t |-> "seq", items |-> items]
JMap(kv) == [t |-> "map", kv |-> kv]
\* the float q + r/100
JFloat(q, r) == [t |-> "float", int |-> q, frac100 |-> r]
EmptyMap == JMap(<<>>)
Absent == [t |-> "absent"]
Exc(name) == [t |-> "exc", exc |-> name]
IsExc(x) == x.t = "exc"

\* bool(x)
Truthy(x) ==
  CASE x.t = "null" -> FALSE
    [] x.t = "bool" -> x.b
    [] x.t = "num" -> x.n # 0
    [] x.t = "float" -> x.int # 0 \/ x.frac100 # 0
    [] x.t = "str" -> Len(x.s) > 0
    [] x.t = "seq" -> Len(x.items) > 0
    [] x.t = "map" -> Len(x.kv) > 0
    [] OTHER -> TRUE

\* k in d, for a dict d
Has(d, k) == \E i \in DOMAIN d.kv : d.kv[i][1] = k

\* d[k], for a dict d with k in d
Item(d, k) == d.kv[CHOOSE i \in DOMAIN d.kv : d.kv[i][1] = k][2]

\* x.get(k, default): AttributeError when x is no dict
PyGetD(x, k, default) ==
  IF IsExc(x) THEN x
  ELSE IF x.t # "map" THEN Exc("AttributeError")
  ELSE IF Has(x, k) THEN Item(x, k) ELSE default

\* x.get(k)
PyGet(x, k) == PyGetD(x, k, JNull)

\* a or b
Or(a, b) == IF IsExc(a) THEN a ELSE IF Truthy(a) THEN a ELSE b

\* list(d.values())
Values(d) == [i \in DOMAIN d.kv |-> d.kv[i][2]]

\* the keys of a dict
Keys(d) == {d.kv[i][1] : i \in DOMAIN d.kv}

\* the characters of the strings of the source
API_URL_PART ==
  <<"a","p","i","2",".","l","u","m","a",".","c","o","m","/",
    "c","a","l","e","n","d","a","r","/","g","e","t">>
BASE_EVENT_URL ==
  <<"h","t","t","p","s",":","/","/","l","u","m","a",".","c","o","m","/">>

\* sub in s, for strings
Contains(sub, s) ==
  \E i \in 0..(Len(s) - Len(sub)) : SubSeq(s, i + 1, i + Len(sub)) = sub

(***************************************************************************)
(* find_event_dicts                                                        *)
(***************************************************************************)
RECURSIVE find_event_dicts(_)
RECURSIVE find_in_each(_)

\* found.extend(find_event_dicts(v)) for v in vs, in order
find_in_each(vs) ==
  IF vs = <<>> THEN <<>>
  ELSE find_event_dicts(Head(vs)) \o find_in_each(Tail(vs))

\* `"event" in obj and isinstance(obj["event"], dict)`
is_event_record(obj) == Has(obj, "event") /\ Item(obj, "event").t = "map"

\* find_in_dict that does not look below a record it has matched
find_in_dict_no_descent(obj) ==
  IF is_event_record(obj) THEN <<obj>> ELSE find_in_each(Values(obj))

\* the dict branch of find_event_dicts
find_in_dict(obj) ==
  (IF is_event_record(obj) THEN <<obj>> ELSE <<>>) \o find_in_each(Values(obj))

find_event_dicts(obj) ==
  IF obj.t = "map" THEN find_in_dict(obj)
  ELSE IF obj.t = "seq" THEN find_in_each(obj.items)
  ELSE <<>>

(***************************************************************************)
(* extract_event_fields                                                    *)
(***************************************************************************)
\* ev = record.get("event", {}) or {}
ev_of(record) == Or(PyGetD(record, "event", EmptyMap), EmptyMap)

\* sub_object without the `or {}`
sub_object_no_default(ev, name) == PyGet(ev, name)

\* ev.get(name) or {}, for geo_address_info and coordinate
sub_object(ev, name) == Or(PyGet(ev, name), EmptyMap)

\* ticket = record.get("ticket_info") or ev.get("ticket_info") or {}
ticket_of(record, ev) ==
  Or(Or(PyGet(record, "ticket_info"), PyGet(ev, "ticket_info")), EmptyMap)

RECURSIVE strip_every_slash(_)
\* url_val.lstrip("/") in place of the removal of one slash
strip_every_slash(s) ==
  IF Len(s) > 0 /\ Head(s) = "/" THEN strip_every_slash(Tail(s)) ELSE s

\* url_val[1:] if url_val.startswith("/") else url_val
strip_slash(s) == IF Len(s) > 0 /\ Head(s) = "/" THEN Tail(s) ELSE s

\* full_url
full_url(ev) ==
  LET url_val == PyGet(ev, "url") IN
  IF IsExc(url_val) THEN url_val
  ELSE IF ~Truthy(url_val) THEN JNull
  ELSE IF url_val.t # "str" THEN Exc("AttributeError")
  ELSE JStr(BASE_EVENT_URL \o strip_slash(url_val.s))

\* ticket.get(k) if isinstance(ticket, dict) else None
ticket_field(ticket, k) ==
  IF IsExc(ticket) THEN ticket
  ELSE IF ticket.t = "map" THEN PyGet(ticket, k) ELSE JNull

\* cents / 100.0
div100(cents) ==
  CASE cents.t = "num" -> JFloat(cents.n \div 100, cents.n % 100)
    [] cents.t = "bool" -> JFloat(0, IF cents.b THEN 1 ELSE 0)
    [] OTHER -> Exc("TypeError")

\* ticket_price_usd without the test of is_free
ticket_price_usd_even_if_free(ticket) ==
  LET cents == PyGet(Or(PyGet(ticket, "price"), EmptyMap), "cents") IN
  IF IsExc(cents) THEN cents
  ELSE IF cents = JNull THEN JNull
  ELSE div100(cents)

\* the value of "ticket_price_usd"
ticket_price_usd(ticket) ==
  LET free == PyGet(ticket, "is_free") IN
  IF IsExc(free) THEN free
  ELSE IF Truthy(free) THEN JNull
  ELSE LET cents == PyGet(Or(PyGet(ticket, "price"), EmptyMap), "cents") IN
       IF IsExc(cents) THEN cents
       ELSE IF cents = JNull THEN JNull
       ELSE div100(cents)

GeoFields ==
  <<"city", "type", "region", "address", "country", "place_id", "city_state",
    "description", "country_code", "full_address", "apple_maps_place_id", "mode">>

\* the pairs "geo_address_info_<f>": geo.get(<f>)
geo_pairs(geo) ==
  [i \in DOMAIN GeoFields |->
     <<"geo_address_info_" \o GeoFields[i], PyGet(geo, GeoFields[i])>>]

\* the dict literal that extract_event_fields returns, as its pairs in order
event_pairs(record) ==
  LET ev == ev_of(record)
      geo == sub_object(ev, "geo_address_info")
      coord == sub_object(ev, "coordinate")
      ticket == ticket_of(record, ev)
  IN  << <<"name", PyGet(ev, "name")>>,
         <<"url", full_url(ev)>> >>
      \o geo_pairs(geo)
      \o << <<"geo_address_visibility", PyGet(ev, "geo_address_visibility")>>,
            <<"latitude", PyGet(coord, "latitude")>>,
            <<"longitude", PyGet(coord, "longitude")>>,
            <<"ticket_is_free", ticket_field(ticket, "is_free")>>,
            <<"ticket_price_usd", ticket_price_usd(ticket)>>,
            <<"ticket_require_approval", ticket_field(ticket, "require_approval")>>,
            <<"ticket_is_sold_out", ticket_field(ticket, "is_sold_out")>>,
            <<"ticket_count", PyGet(record, "ticket_count")>>,
            <<"guest_count", PyGet(record, "guest_count")>>,
            <<"ticket_max_price", ticket_field(ticket, "max_price")>>,
            <<"ticket_spots_remaining", ticket_field(ticket, "spots_remaining")>>,
            <<"ticket_is_near_capacity", ticket_field(ticket, "is_near_capacity")>>,
            <<"ticket_currency_info", ticket_field(ticket, "currency_info")>>,
            <<"waitlist_enabled", PyGet(ev, "waitlist_enabled")>> >>

\* dict_or_raise that leaves out the keys whose value is None
dict_or_raise_without_none(pairs) ==
  IF \E i \in DOMAIN pairs : IsExc(pairs[i][2])
  THEN pairs[CHOOSE i \in DOMAIN pairs :
               /\ IsExc(pairs[i][2])
               /\ \A j \in 1..(i - 1) : ~IsExc(pairs[j][2])][2]
  ELSE JMap(SelectSeq(pairs, LAMBDA p : p[2] # JNull))

\* a dict of the pairs, or the first exception raised while evaluating them
dict_or_raise(pairs) ==
  IF \E i \in DOMAIN pairs : IsExc(pairs[i][2])
  THEN pairs[CHOOSE i \in DOMAIN pairs :
               /\ IsExc(pairs[i][2])
               /\ \A j \in 1..(i - 1) : ~IsExc(pairs[j][2])][2]
  ELSE JMap(pairs)

extract_event_fields(record) == dict_or_raise(event_pairs(record))

(***************************************************************************)
(* parse_capture_to_events                                                 *)
(***************************************************************************)
RECURSIVE extract_each(_)
\* all_results.append(extract_event_fields(rec)) for rec in records
extract_each(records) ==
  IF records = <<>> THEN <<>>
  ELSE <<extract_event_fields(Head(records))>> \o extract_each(Tail(records))

\* one turn of `for cap in captures`: what it appends to all_results
results_of_capture(cap) ==
  LET body == PyGet(cap, "body") IN
  IF IsExc(body) THEN <<body>>
  ELSE IF ~Truthy(body) THEN <<>>
  ELSE extract_each(find_event_dicts(body))

RECURSIVE results_of_captures(_)
results_of_captures(captures) ==
  IF captures = <<>> THEN <<>>
  ELSE results_of_capture(Head(captures)) \o results_of_captures(Tail(captures))

\* the first component of the returned tuple
capture_count(captures) == Len(captures)

\* content: what json.load returns for the capture file (a list of dicts)
parse_capture_to_events(content) ==
  LET all_results == results_of_captures(content.items) IN
  IF \E i \in DOMAIN all_results : IsExc(all_results[i])
  THEN all_results[CHOOSE i \in DOMAIN all_results :
                     /\ IsExc(all_results[i])
                     /\ \A j \in 1..(i - 1) : ~IsExc(all_results[j])]
  ELSE [t |-> "tuple", count |-> capture_count(content.items),
        events |-> all_results]

(***************************************************************************)
(* Inputs of the extractor: event records, response bodies, capture files. *)
(***************************************************************************)
\* a dict of the pairs whose value is not Absent
MkMap(pairs) == JMap(SelectSeq(pairs, LAMBDA p : p[2] # Absent))

S_my_event == <<"m","y","-","e","v","e","n","t">>
S_name == <<"D","e","v">>
S_city == <<"B","A">>

UrlOpts ==
  {Absent, JNull, JStr(<<>>), JStr(S_my_event), JStr(<<"/">> \o S_my_event),
   JStr(<<"/", "/", "x">>), JStr(<<"/">>), JNum(5)}

GeoFull ==
  JMap(<< <<"city", JStr(S_city)>>, <<"mode", JStr(<<"s">>)>>,
          <<"country_code", JStr(<<"A","R">>)>>, <<"place_id", JNull>> >>)

GeoOpts == {Absent, JNull, EmptyMap, GeoFull, JStr(S_city)}

CoordFull == JMap(<< <<"latitude", JNum(-34)>>, <<"longitude", JNum(-58)>> >>)

CoordOpts == {Absent, JNull, CoordFull, JSeq(<<JNum(1), JNum(2)>>)}

\* a ticket_info with the given is_free and price (Absent: no such key)
Ticket(is_free, price) ==
  MkMap(<< <<"is_free", is_free>>, <<"price", price>>,
           <<"require_approval", JBool(TRUE)>>, <<"spots_remaining", JNum(3)>> >>)

Price(cents) == MkMap(<< <<"cents", cents>>, <<"currency", JStr(<<"u","s","d">>)>> >>)

TicketOpts ==
  {Absent, JNull, EmptyMap, JStr(<<"f","r","e","e">>)}
  \cup {Ticket(f, p) :
          f \in {Absent, JNull, JBool(TRUE), JBool(FALSE)},
          p \in {Absent, JNull, JNum(25), Price(Absent), Price(JNull),
                 Price(JNum(0)), Price(JNum(2500)), Price(JNum(2550)),
                 Price(JStr(<<"2","5">>))}}

EvTicketOpts == {Absent, Ticket(JBool(FALSE), Price(JNum(1999)))}

\* a record {"event": {...}, "ticket_info": ..., "guest_count": ...}
Rec(url, geo, coord, rticket, eticket) ==
  MkMap(<< <<"event",
             MkMap(<< <<"name", JStr(S_name)>>, <<"url", url>>,
                      <<"geo_address_info", geo>>, <<"coordinate", coord>>,
                      <<"ticket_info", eticket>>,
                      <<"waitlist_enabled", JBool(FALSE)>> >>)>>,
           <<"ticket_info", rticket>>,
           <<"guest_count", JNum(7)>> >>)

Records ==
  {Rec(u, g, c, rt, et) : u \in UrlOpts, g \in GeoOpts, c \in CoordOpts,
                          rt \in TicketOpts, et \in EvTicketOpts}
  \cup {JMap(<< <<"event", EmptyMap>> >>), JMap(<< <<"event", JNull>> >>),
        EmptyMap}

\* the records the bodies are built from
R_full ==
  Rec(JStr(<<"/">> \o S_my_event), GeoFull, CoordFull,
      Ticket(JBool(FALSE), Price(JNum(2500))), Absent)
R_null == Rec(JNull, JNull, JNull, JNull, Absent)
R_bare == JMap(<< <<"event", EmptyMap>> >>)
R_bad == Rec(JStr(S_my_event), JStr(S_city), Absent, Absent, Absent)
BodyRecords == {R_full, R_null, R_bare, R_bad}

\* a record with another one below it, and one inside its event
WithChild(r, c) == JMap(r.kv \o << <<"children", JSeq(<<c>>)>> >>)
InsideEvent(r, c) ==
  JMap(<< <<"event", JMap(Item(r, "event").kv \o << <<"host", c>> >>)>> >>)

\* d wrappers around x, dicts and lists in turn
RECURSIVE Wrap(_, _)
Wrap(x, d) ==
  IF d = 0 THEN x
  ELSE IF d % 2 = 1
       THEN JMap(<< <<"has_more", JBool(FALSE)>>, <<"entries", Wrap(x, d - 1)>> >>)
       ELSE JSeq(<<JNum(0), Wrap(x, d - 1), JStr(<<"e">>)>>)

Shapes ==
  BodyRecords
  \cup {JSeq(<<a, b>>) : a, b \in BodyRecords}
  \cup {WithChild(a, b) : a, b \in BodyRecords}
  \cup {InsideEvent(a, b) : a, b \in BodyRecords}
  \cup {JMap(<< <<"event", JStr(S_name)>>, <<"x", R_full>> >>),
        JMap(<< <<"event", JNull>> >>),
        JMap(<< <<"raw_text", JStr(<<"<">>)>> >>),
        EmptyMap, JSeq(<<>>), JStr(<<>>), JStr(S_name), JNum(0), JNum(3),
        JBool(FALSE), JNull}

Bodies == {Wrap(s, d) : s \in Shapes, d \in 0..MaxDepth}

\* a capture {"url": ..., "status": ..., "body": ...} (Absent: no "body" key)
Capture(body) ==
  MkMap(<< <<"url", JStr(API_URL_PART)>>, <<"status", JNum(200)>>,
           <<"body", body>> >>)

FileBodies ==
  {Absent, JNull, EmptyMap, JSeq(<<>>), R_bare,
   Wrap(R_full, MaxDepth), Wrap(JSeq(<<R_null, R_full>>), 1),
   WithChild(R_null, R_bare), Wrap(R_bad, 1)}

RECURSIVE SeqsUpTo(_, _)
\* the sequences over S of length at most n
SeqsUpTo(S, n) ==
  IF n = 0 THEN {<<>>}
  ELSE LET shorter == SeqsUpTo(S, n - 1) IN
       shorter \cup {Append(q, e) : q \in shorter, e \in S}

CaptureFiles ==
  {JSeq(q) : q \in SeqsUpTo({Capture(b) : b \in FileBodies}, MaxCaps)}

(***************************************************************************)
(* The responses the page can deliver.  json, loads and text are what      *)
(* resp.json(), json.loads(resp.text()) and resp.text() return or raise.   *)
(***************************************************************************)
U_api == <<"h","t","t","p","s",":","/","/">> \o API_URL_PART \o <<"-","i","t","e","m","s">>
U_near == <<"h","t","t","p","s",":","/","/","a","p","i","2",".","l","u","m","a",".",
            "c","o","m","/","c","a","l","e","n","d","a","r","/","g","o","t">>

Resp(url, status, json, loads, text) ==
  [url |-> url, status |-> status, json |-> json, loads |-> loads, text |-> text]

T_some == JStr(<<"{", "}">>)
T_html == JStr(<<"<">>)

Responses ==
  {Resp(U_api, 200, Wrap(R_full, 1), Wrap(R_full, 1), T_some),
   Resp(U_api, 200, Exc("Error"), R_bad, T_some),
   Resp(U_api, 500, Exc("JSONDecodeError"), Exc("JSONDecodeError"), T_html),
   Resp(U_api, 302, Exc("Error"), Exc("Error"), Exc("Error")),
   Resp(U_near, 200, R_full, R_full, T_some)}

(***************************************************************************)
(* capture_with_playwright                                                 *)
(***************************************************************************)
\* response_body without the fallback to the raw text
response_body_json_only(resp) ==
  IF ~IsExc(resp.json) THEN resp.json ELSE resp.loads

\* the body on_response stores: JSON, else the text parsed, else the raw text
response_body(resp) ==
  IF ~IsExc(resp.json) THEN resp.json
  ELSE IF ~IsExc(resp.loads) THEN resp.loads
  ELSE IF ~IsExc(resp.text) THEN JMap(<< <<"raw_text", resp.text>> >>)
  ELSE resp.text

\* {"url": resp.url, "status": resp.status, "body": body}
capture_entry(resp, body) ==
  JMap(<< <<"url", JStr(resp.url)>>, <<"status", JNum(resp.status)>>,
          <<"body", body>> >>)

\* on_response: the list `captured` after the handler has run on resp
on_response(list, resp) ==
  IF Contains(API_URL_PART, resp.url)
  THEN LET body == response_body(resp) IN
       IF IsExc(body) THEN list   \* except Exception: pass
       ELSE Append(list, capture_entry(resp, body))
  ELSE list

\* grew with >= for >
grew_or_same(n, last) == n >= last

\* len(captured) > last_count
grew(n, last) == n > last

\* idle_exceeded with >= for >
idle_reached(t, since, limit) == t - since >= limit

\* time.time() - idle_since > timeout_idle
idle_exceeded(t, since, limit) == t - since > limit

\* capture_return that returns the loop's last_count
capture_return_last_count(list, last) == last

\* return len(captured)
capture_return(list, last) == Len(list)

\* json.dump of a list: the document written
json_dump(list) == JSeq(list)

\* The positions at which on_response can run: the sync API runs handlers only
\* while the program is inside a call of the page (goto, evaluate, close); what
\* the page receives during time.sleep is handed over at the next such call.
Listening == {"goto", "scroll", "close"}

Log(e) == io' = Append(io, e)

xvars == <<xfn, xarg, xres>>
args == <<playwright, keep_capture, timeout_idle>>
loopvars == <<last_count, idle_since, seen_len, seen_grow, iter>>
envvars == <<pending, arrived>>
mainvars == <<num_captures, parsed, exit_code>>

\* main calls capture_with_playwright, which tries the import
main_start ==
  /\ pc = "start"
  /\ pc' = IF playwright THEN "launch" ELSE "runtime_error"
  /\ UNCHANGED <<args, now, captured, loopvars, envvars, fs, io, mainvars, xvars>>

\* main_runtime_error without the return: it goes on to step 2
main_runtime_error_no_return ==
  /\ pc = "runtime_error"
  /\ Log("stderr")
  /\ pc' = "parse"
  /\ UNCHANGED <<args, now, captured, loopvars, envvars, fs, mainvars, xvars>>

\* except RuntimeError: print to stderr, return 3
main_runtime_error ==
  /\ pc = "runtime_error"
  /\ Log("stderr")
  /\ exit_code' = 3
  /\ pc' = "done"
  /\ UNCHANGED <<args, now, captured, loopvars, envvars, fs, num_captures,
                 parsed, xvars>>

\* launch, new_context, new_page, page.on("response", on_response)
open_page ==
  /\ pc = "launch"
  /\ captured' = <<>>
  /\ pc' = "goto"
  /\ UNCHANGED <<args, now, loopvars, envvars, fs, io, mainvars, xvars>>

\* the page delivers a response: on_response runs
deliver_response ==
  /\ pc \in Listening
  /\ pending > 0
  /\ \E resp \in Responses :
       /\ arrived' = Append(arrived, resp)
       /\ captured' = on_response(captured, resp)
  /\ pending' = pending - 1
  /\ UNCHANGED <<args, pc, now, loopvars, fs, io, mainvars, xvars>>

\* page.goto(url) returns; last_count = 0; idle_since = time.time()
page_goto ==
  /\ pc = "goto"
  /\ Log("goto")
  /\ last_count' = 0
  /\ idle_since' = now
  /\ seen_len' = 0
  /\ seen_grow' = now
  /\ iter' = <<0, 0>>
  /\ pc' = "scroll"
  /\ UNCHANGED <<args, now, captured, envvars, fs, mainvars, xvars>>

\* page.evaluate("window.scrollBy(...)")
scroll ==
  /\ pc = "scroll"
  /\ iter' = <<iter[1] + 1, iter[2]>>
  /\ pc' = "sleep"
  /\ UNCHANGED <<args, now, captured, last_count, idle_since, seen_len, seen_grow,
                 envvars, fs, io, mainvars, xvars>>

\* time.sleep(1)
sleep ==
  /\ pc = "sleep"
  /\ \E d \in 1..MaxSleep : now' = now + d
  /\ iter' = <<iter[1], iter[2] + 1>>
  /\ pc' = "check"
  /\ UNCHANGED <<args, captured, last_count, idle_since, seen_len, seen_grow,
                 envvars, fs, io, mainvars, xvars>>

\* the two ifs that end an iteration of the loop
check ==
  /\ pc = "check"
  /\ LET n == Len(captured)
         since == IF grew(n, last_count) THEN now ELSE idle_since
         break == idle_exceeded(now, since, timeout_idle)
     IN  /\ last_count' = IF grew(n, last_count) THEN n ELSE last_count
         /\ idle_since' = since
         /\ pc' = IF break THEN "close" ELSE "scroll"
         /\ seen_grow' = IF n > seen_len THEN now ELSE seen_grow
         /\ seen_len' = n
         /\ iter' = IF break THEN iter ELSE <<0, 0>>
  /\ UNCHANGED <<args, now, captured, envvars, fs, io, mainvars, xvars>>

\* browser.close()
browser_close ==
  /\ pc = "close"
  /\ pc' = "write"
  /\ UNCHANGED <<args, now, captured, loopvars, envvars, fs, io, mainvars, xvars>>

\* json.dump(captured, f); return len(captured)
write_capture ==
  /\ pc = "write"
  /\ fs' = [fs EXCEPT !.capture = json_dump(captured)]
  /\ Log("write_capture")
  /\ num_captures' = capture_return(captured, last_count)
  /\ pc' = "parse"
  /\ UNCHANGED <<args, now, captured, loopvars, envvars, parsed, exit_code, xvars>>

\* num_caps, events = parse_capture_to_events(args.capture)
parse ==
  /\ pc = "parse"
  /\ Log("read_capture")
  /\ LET r == IF fs.capture = Absent THEN Exc("FileNotFoundError")
              ELSE parse_capture_to_events(fs.capture)
     IN  /\ parsed' = r
         /\ pc' = IF IsExc(r) THEN "crashed" ELSE "write_output"
  /\ UNCHANGED <<args, now, captured, loopvars, envvars, fs, num_captures,
                 exit_code, xvars>>

\* json.dump(events, f)
write_output ==
  /\ pc = "write_output"
  /\ fs' = [fs EXCEPT !.output = json_dump(parsed.events)]
  /\ Log("write_output")
  /\ pc' = "cleanup"
  /\ UNCHANGED <<args, now, captured, loopvars, envvars, mainvars, xvars>>

\* should_remove that ignores --keep-capture
should_remove_always(keep) == TRUE

\* if not args.keep_capture
should_remove(keep) == ~keep

\* the optional os.remove (its failure is ignored); return 0
cleanup ==
  /\ pc = "cleanup"
  /\ IF should_remove(keep_capture)
     THEN \/ /\ fs' = [fs EXCEPT !.capture = Absent]
             /\ Log("remove_capture")
          \/ /\ fs' = fs
             /\ Log("remove_failed")
     ELSE UNCHANGED <<fs, io>>
  /\ exit_code' = 0
  /\ pc' = "done"
  /\ UNCHANGED <<args, now, captured, loopvars, envvars, num_captures, parsed, xvars>>

Timeouts == (-1)..MaxTimeout

Init ==
  /\ playwright \in BOOLEAN
  /\ keep_capture \in BOOLEAN
  /\ timeout_idle \in Timeouts
  /\ pc = "start"
  /\ now = 0
  /\ captured = <<>>
  /\ last_count = 0
  /\ idle_since = 0
  /\ pending = MaxResponses
  /\ arrived = <<>>
  /\ seen_len = 0
  /\ seen_grow = 0
  /\ iter = <<0, 0>>
  /\ fs = [capture |-> Absent, output |-> Absent]
  /\ io = <<>>
  /\ num_captures = -1
  /\ parsed = JNull
  /\ exit_code = -1
  /\ xfn = "off"
  /\ xarg = JNull
  /\ xres = JNull

\* the steps of step 1 of main: capture_with_playwright
CaptureStep ==
  \/ main_start
  \/ main_runtime_error
  \/ open_page
  \/ page_goto
  \/ scroll
  \/ sleep
  \/ check
  \/ browser_close
  \/ write_capture

\* the steps of step 2 of main and the cleanup
ExtractStep ==
  \/ parse
  \/ write_output
  \/ cleanup

Next == CaptureStep \/ ExtractStep \/ deliver_response

Spec == Init /\ [][Next]_vars

\* The capture stage keeps running: none of its steps waits for ever.  Nothing
\* is assumed of the page, which may deliver its responses or not.
FairSpec == Spec /\ WF_vars(CaptureStep)

(***************************************************************************)
(* The extractor on its own: one of its three functions applied to an      *)
(* input drawn from the sets above.                                        *)
(***************************************************************************)
ExtractInputs ==
  {[kind |-> "record", v |-> r] : r \in Records}
  \cup {[kind |-> "body", v |-> b] : b \in Bodies}
  \cup {[kind |-> "file", v |-> f] : f \in CaptureFiles}

InitExtract ==
  /\ playwright = TRUE
  /\ keep_capture = FALSE
  /\ timeout_idle = 0
  /\ pc = "off"
  /\ now = 0
  /\ captured = <<>>
  /\ last_count = 0
  /\ idle_since = 0
  /\ pending = 0
  /\ arrived = <<>>
  /\ seen_len = 0
  /\ seen_grow = 0
  /\ iter = <<0, 0>>
  /\ fs = [capture |-> Absent, output |-> Absent]
  /\ io = <<>>
  /\ num_captures = -1
  /\ parsed = JNull
  /\ exit_code = -1
  /\ xfn = "none"
  /\ xarg \in ExtractInputs
  /\ xres = JNull

pipeline == <<args, pc, now, captured, loopvars, envvars, fs, io, mainvars>>

call_extract_event_fields ==
  /\ xfn = "none"
  /\ xarg.kind = "record"
  /\ xres' = extract_event_fields(xarg.v)
  /\ xfn' = "extract_event_fields"
  /\ UNCHANGED <<xarg, pipeline>>

call_find_event_dicts ==
  /\ xfn = "none"
  /\ xarg.kind = "body"
  /\ xres' = JSeq(find_event_dicts(xarg.v))
  /\ xfn' = "find_event_dicts"
  /\ UNCHANGED <<xarg, pipeline>>

call_parse_capture_to_events ==
  /\ xfn = "none"
  /\ xarg.kind = "file"
  /\ xres' = parse_capture_to_events(xarg.v)
  /\ xfn' = "parse_capture_to_events"
  /\ UNCHANGED <<xarg, pipeline>>

NextExtract ==
  \/ call_extract_event_fields
  \/ call_find_event_dicts
  \/ call_parse_capture_to_events

SpecExtract == InitExtract /\ [][NextExtract]_vars

(***************************************************************************)
(* Vocabulary of the properties.                                           *)
(***************************************************************************)
AfterLoop == {"close", "write", "parse", "write_output", "cleanup", "done", "crashed"}
AfterCapture == {"parse", "write_output", "cleanup", "done", "crashed"}

\* the position of e in the history io, 0 when it is not there
Pos(e) == IF \E i \in DOMAIN io : io[i] = e
          THEN CHOOSE i \in DOMAIN io : io[i] = e ELSE 0
Count(e) == Cardinality({i \in DOMAIN io : io[i] = e})

MatchesApi(resp) == Contains(API_URL_PART, resp.url)
Readable(resp) == ~IsExc(resp.json) \/ ~IsExc(resp.loads) \/ ~IsExc(resp.text)

\* the entry a response is to yield: its JSON when it has one, else its text
\* under the single key raw_text
ExpectedEntry(resp) ==
  JMap(<< <<"url", JStr(resp.url)>>, <<"status", JNum(resp.status)>>,
          <<"body", IF ~IsExc(resp.json) THEN resp.json
                    ELSE IF ~IsExc(resp.loads) THEN resp.loads
                    ELSE JMap(<< <<"raw_text", resp.text>> >>)>> >>)

EntriesOf(resps) == [i \in DOMAIN resps |-> ExpectedEntry(resps[i])]

\* the children of a value, its subvalues at all depths, and pre-order
Children(x) == IF x.t = "map" THEN Values(x) ELSE IF x.t = "seq" THEN x.items ELSE <<>>

RECURSIVE Paths(_)
Paths(x) ==
  {<<>>} \cup UNION {{<<i>> \o q : q \in Paths(Children(x)[i])} : i \in DOMAIN Children(x)}

RECURSIVE At(_, _)
At(x, q) == IF q = <<>> THEN x ELSE At(Children(x)[Head(q)], Tail(q))

\* q1 comes before q2 in depth-first pre-order
Before(q1, q2) ==
  /\ q1 # q2
  /\ \/ /\ Len(q1) < Len(q2)
        /\ SubSeq(q2, 1, Len(q1)) = q1
     \/ \E i \in 1..Len(q1) :
          /\ i <= Len(q2)
          /\ SubSeq(q1, 1, i - 1) = SubSeq(q2, 1, i - 1)
          /\ q1[i] < q2[i]

\* a mapping with a key event whose value is a mapping
EventRecord(x) ==
  /\ x.t = "map"
  /\ \E i \in DOMAIN x.kv : x.kv[i][1] = "event" /\ x.kv[i][2].t = "map"

RECURSIVE Listed(_, _)
\* the values at the paths P of x, in pre-order
Listed(x, P) ==
  IF P = {} THEN <<>>
  ELSE LET first == CHOOSE q \in P : \A r \in P \ {q} : Before(q, r) IN
       <<At(x, first)>> \o Listed(x, P \ {first})

PreOrderMatches(x) == Listed(x, {q \in Paths(x) : EventRecord(At(x, q))})

\* the value under key k of a mapping, Absent when there is none
Field(d, k) ==
  IF d.t = "map" /\ \E i \in DOMAIN d.kv : d.kv[i][1] = k
  THEN d.kv[CHOOSE i \in DOMAIN d.kv : d.kv[i][1] = k][2]
  ELSE Absent

Lacks(d, k) == Field(d, k).t \in {"absent", "null"}
NoneOrA(d, k, kind) == Field(d, k).t \in {"absent", "null", kind}

\* the record's event (an empty mapping when it has none)
EventOf(r) == IF Field(r, "event").t = "map" THEN Field(r, "event") ELSE EmptyMap

\* the ticket info in force: the record's, else the event's, else nothing
TicketOf(r) ==
  IF Truthy(Field(r, "ticket_info")) /\ ~Lacks(r, "ticket_info")
  THEN Field(r, "ticket_info")
  ELSE IF Truthy(Field(EventOf(r), "ticket_info")) /\ ~Lacks(EventOf(r), "ticket_info")
       THEN Field(EventOf(r), "ticket_info")
       ELSE EmptyMap

TicketOk(tk) ==
  /\ NoneOrA(tk, "price", "map")
  /\ NoneOrA(Field(tk, "price"), "cents", "num")

\* a record of the upstream shape: its nested objects are mappings, missing
\* or null; its url a string, its cents an integer, when there
WellFormedRecord(r) ==
  /\ r.t = "map"
  /\ NoneOrA(r, "event", "map")
  /\ NoneOrA(EventOf(r), "url", "str")
  /\ NoneOrA(EventOf(r), "geo_address_info", "map")
  /\ NoneOrA(EventOf(r), "coordinate", "map")
  /\ NoneOrA(r, "ticket_info", "map")
  /\ NoneOrA(EventOf(r), "ticket_info", "map")
  /\ TicketOk(Field(r, "ticket_info"))
  /\ TicketOk(Field(EventOf(r), "ticket_info"))

WellFormedBody(b) ==
  \A q \in Paths(b) : EventRecord(At(b, q)) => WellFormedRecord(At(b, q))

WellFormedFile(f) ==
  \A i \in DOMAIN f.items : WellFormedBody(Field(f.items[i], "body"))

ExtractedKeys ==
  <<"name", "url", "geo_address_info_city", "geo_address_info_type",
    "geo_address_info_region", "geo_address_info_address",
    "geo_address_info_country", "geo_address_info_place_id",
    "geo_address_info_city_state", "geo_address_info_description",
    "geo_address_info_country_code", "geo_address_info_full_address",
    "geo_address_info_apple_maps_place_id", "geo_address_info_mode",
    "geo_address_visibility", "latitude", "longitude", "ticket_is_free",
    "ticket_price_usd", "ticket_require_approval", "ticket_is_sold_out",
    "ticket_count", "guest_count", "ticket_max_price", "ticket_spots_remaining",
    "ticket_is_near_capacity", "ticket_currency_info", "waitlist_enabled">>

GeoKeys == {ExtractedKeys[i] : i \in 3..14}
CoordKeys == {"latitude", "longitude"}
TicketKeys ==
  {"ticket_is_free", "ticket_price_usd", "ticket_require_approval",
   "ticket_is_sold_out", "ticket_max_price", "ticket_spots_remaining",
   "ticket_is_near_capacity", "ticket_currency_info"}

HasFixedKeys(e) ==
  /\ e.t = "map"
  /\ [i \in DOMAIN e.kv |-> e.kv[i][1]] = ExtractedKeys

Extracted == xfn = "extract_event_fields" /\ ~IsExc(xres)
ParsedFile == xfn = "parse_capture_to_events" /\ ~IsExc(xres)

S_luma_my_event ==
  <<"h","t","t","p","s",":","/","/","l","u","m","a",".","c","o","m","/",
    "m","y","-","e","v","e","n","t">>

(***************************************************************************)
(* C1.  Once the scroll loop has begun and the page goes silent, the loop  *)
(* exits and the capture stage returns: the value returned is the number   *)
(* of responses captured, which is the number of entries of the capture    *)
(* file.  (Under FairSpec; the page delivers finitely many responses.)     *)
(***************************************************************************)
CaptureReturned ==
  /\ pc = "parse"
  /\ num_captures = Len(captured)
  /\ fs.capture.t = "seq"
  /\ Len(fs.capture.items) = num_captures

C1_IdleTermination == (pc = "scroll") ~> CaptureReturned

C1_Witness ==
  /\ pc = "parse"
  /\ timeout_idle = 1
  /\ now - idle_since > timeout_idle
  /\ num_captures = 2
  /\ Len(fs.capture.items) = 2

(***************************************************************************)
(* C2.  When the import of the browser automation fails, nothing is        *)
(* navigated, written, parsed or removed, and main returns 3 after         *)
(* printing the diagnostic to the error stream.                            *)
(***************************************************************************)
C2_MissingCapability ==
  /\ ~playwright =>
       /\ pc \in {"start", "runtime_error", "done"}
       /\ fs = [capture |-> Absent, output |-> Absent]
       /\ io \in {<<>>, <<"stderr">>}
       /\ arrived = <<>>
       /\ parsed = JNull
       /\ num_captures = -1
       /\ pc = "done" => (exit_code = 3 /\ io = <<"stderr">>)
       /\ pc # "done" => (exit_code = -1 /\ io = <<>>)
  /\ exit_code = 3 => ~playwright

C2_Witness == ~playwright /\ pc = "done" /\ exit_code = 3 /\ io = <<"stderr">>

(***************************************************************************)
(* C3, as claimed.  The capture list is, at every point, one entry per     *)
(* intercepted response whose URL contains the API marker, in order of     *)
(* arrival.                                                                *)
(***************************************************************************)
C3_OnePerMatchingResponse ==
  /\ Len(captured) = Len(SelectSeq(arrived, MatchesApi))
  /\ \A i \in DOMAIN captured :
       Field(captured[i], "url") = JStr(SelectSeq(arrived, MatchesApi)[i].url)

(***************************************************************************)
(* C3, amended.  The capture list is, at every point, one entry per        *)
(* intercepted response whose URL contains the API marker and whose body   *)
(* could be read (as JSON or as text), in order of arrival and without     *)
(* deduplication; a body that is not JSON is kept as raw text under the    *)
(* single key raw_text; a response whose handling raises yields no entry,  *)
(* and the run fails in no position of the capture stage.                  *)
(***************************************************************************)
C3_OnePerHandledResponse ==
  /\ captured =
       EntriesOf(SelectSeq(arrived, LAMBDA r : MatchesApi(r) /\ Readable(r)))
  /\ pc = "crashed" => Pos("read_capture") > 0

C3_Witness ==
  /\ Len(arrived) = 2
  /\ MatchesApi(arrived[1]) /\ ~Readable(arrived[1])
  /\ MatchesApi(arrived[2]) /\ IsExc(arrived[2].loads) /\ Readable(arrived[2])
  /\ Len(captured) = 1
  /\ Field(captured[1], "body") = JMap(<< <<"raw_text", T_html>> >>)
  /\ pc = "scroll"

(***************************************************************************)
(* C4.  parse_capture_to_events and extract_event_fields raise on no       *)
(* input whose event records are well formed, at whatever depth they lie;  *)
(* nested objects that are missing or null count as empty mappings.        *)
(***************************************************************************)
C4_NeverRaises ==
  /\ (xfn = "parse_capture_to_events" /\ WellFormedFile(xarg.v)) => ~IsExc(xres)
  /\ (xfn = "extract_event_fields" /\ WellFormedRecord(xarg.v)) => ~IsExc(xres)

C4_Witness ==
  /\ xfn = "parse_capture_to_events"
  /\ xarg.v = JSeq(<<Capture(Wrap(JSeq(<<R_null, R_full>>), 1)),
                     Capture(WithChild(R_null, R_bare))>>)
  /\ ~IsExc(xres)
  /\ Len(xres.events) = 4

(***************************************************************************)
(* C5.  Every extracted event has the same keys, in the same order; the    *)
(* fields of a geo_address_info, coordinate or ticket_info that the record *)
(* lacks are there with the value null.                                    *)
(***************************************************************************)
NullAt(e, keys) == \A k \in keys : Field(e, k) = JNull

C5_FixedKeys ==
  /\ Extracted =>
       /\ HasFixedKeys(xres)
       /\ Lacks(EventOf(xarg.v), "geo_address_info") => NullAt(xres, GeoKeys)
       /\ Lacks(EventOf(xarg.v), "coordinate") => NullAt(xres, CoordKeys)
       /\ (Lacks(xarg.v, "ticket_info") /\ Lacks(EventOf(xarg.v), "ticket_info"))
            => NullAt(xres, TicketKeys)
  /\ ParsedFile => \A i \in DOMAIN xres.events : HasFixedKeys(xres.events[i])

C5_Witness ==
  /\ Extracted
  /\ xarg.v = Rec(JStr(S_my_event), Absent, Absent, Absent, Absent)
  /\ NullAt(xres, GeoKeys \cup CoordKeys \cup TicketKeys)
  /\ Len(xres.kv) = 28

(***************************************************************************)
(* C6.  ticket_price_usd is null when the ticket info is marked free,      *)
(* whatever the price; otherwise it is the cents divided by 100 (2500      *)
(* gives 25.0), and null when there are no cents.                          *)
(***************************************************************************)
CentsOf(tk) == Field(Field(tk, "price"), "cents")

C6_Price ==
  Extracted =>
    LET tk == TicketOf(xarg.v)
        usd == Field(xres, "ticket_price_usd")
    IN  /\ Field(tk, "is_free") = JBool(TRUE) => usd = JNull
        /\ (Field(tk, "is_free") # JBool(TRUE) /\ CentsOf(tk).t = "num") =>
             /\ usd.t = "float"
             /\ 100 * usd.int + usd.frac100 = CentsOf(tk).n
             /\ usd.frac100 \in 0..99
             /\ CentsOf(tk).n = 2500 => usd = JFloat(25, 0)
        /\ (Field(tk, "is_free") # JBool(TRUE) /\ CentsOf(tk).t \in {"absent", "null"})
             => usd = JNull

C6_Witness ==
  /\ Extracted
  /\ Field(xarg.v, "ticket_info") = Ticket(JBool(TRUE), Price(JNum(2500)))
  /\ Field(EventOf(xarg.v), "ticket_info") = Ticket(JBool(FALSE), Price(JNum(1999)))
  /\ Field(xres, "ticket_price_usd") = JNull
  /\ Field(xres, "ticket_is_free") = JBool(TRUE)

(***************************************************************************)
(* C7.  The url of an extracted event is the base followed by the event's  *)
(* url less one leading slash ("my-event" and "/my-event" both give        *)
(* "https://luma.com/my-event"); it is null when the event has no url.     *)
(***************************************************************************)
C7_Url ==
  Extracted =>
    LET u == Field(EventOf(xarg.v), "url")
        out == Field(xres, "url")
    IN  /\ (u.t \in {"absent", "null"} \/ u = JStr(<<>>)) => out = JNull
        /\ (u.t = "str" /\ u.s # <<>>) =>
             /\ out.t = "str"
             /\ Len(out.s) >= Len(BASE_EVENT_URL)
             /\ SubSeq(out.s, 1, Len(BASE_EVENT_URL)) = BASE_EVENT_URL
             /\ LET rest == SubSeq(out.s, Len(BASE_EVENT_URL) + 1, Len(out.s)) IN
                IF u.s[1] = "/" THEN u.s = <<"/">> \o rest ELSE u.s = rest
        /\ (u = JStr(S_my_event) \/ u = JStr(<<"/">> \o S_my_event))
             => out = JStr(S_luma_my_event)

C7_Witness ==
  /\ Extracted
  /\ Field(EventOf(xarg.v), "url") = JStr(<<"/">> \o S_my_event)
  /\ Field(xres, "url") = JStr(S_luma_my_event)

(***************************************************************************)
(* C8, as claimed.  Capture, then extraction, then the optional cleanup;   *)
(* and when main returns 0 the capture file has been removed if and only   *)
(* if --keep-capture was not given.                                        *)
(***************************************************************************)
StagesInOrder ==
  /\ \A e \in {"goto", "write_capture", "read_capture", "write_output",
               "remove_capture", "remove_failed"} : Count(e) <= 1
  /\ Pos("read_capture") > 0 =>
       (playwright => (0 < Pos("write_capture") /\ Pos("write_capture") < Pos("read_capture")))
  /\ Pos("write_output") > 0 =>
       /\ 0 < Pos("read_capture") /\ Pos("read_capture") < Pos("write_output")
       /\ ~IsExc(parsed)
  /\ fs.output # Absent => Pos("write_output") > 0
  /\ (Pos("remove_capture") > 0 \/ Pos("remove_failed") > 0) =>
       /\ 0 < Pos("write_output")
       /\ Pos("write_output") < Len(io)
       /\ io[Len(io)] \in {"remove_capture", "remove_failed"}
       /\ fs.output # Absent
  /\ exit_code = 0 => (pc = "done" /\ fs.output # Absent)

C8_RemovedIffNotKept ==
  /\ StagesInOrder
  /\ exit_code = 0 => (fs.capture = Absent <=> ~keep_capture)

(***************************************************************************)
(* C8, amended.  Capture, then extraction, then the optional cleanup; when *)
(* main returns 0, the removal of the capture file has been attempted if   *)
(* and only if --keep-capture was not given, and the file is gone if and   *)
(* only if that attempt succeeded (a failed removal is ignored).           *)
(***************************************************************************)
C8_RemovalAttemptedIffNotKept ==
  /\ StagesInOrder
  /\ exit_code = 0 =>
       /\ (Pos("remove_capture") > 0 \/ Pos("remove_failed") > 0) <=> ~keep_capture
       /\ ~(Pos("remove_capture") > 0 /\ Pos("remove_failed") > 0)
       /\ fs.capture = Absent <=> Pos("remove_capture") > 0
       /\ keep_capture => fs.capture = json_dump(captured)

C8_Witness ==
  /\ exit_code = 0
  /\ ~keep_capture
  /\ io = <<"goto", "write_capture", "read_capture", "write_output", "remove_capture">>
  /\ fs.capture = Absent
  /\ fs.output # Absent

(***************************************************************************)
(* C9.  The scroll loop exits only when the time since it last saw the     *)
(* capture list grow (since its start, if it never did) exceeds            *)
(* timeout_idle; every iteration scrolls once and sleeps once; the capture *)
(* file is written only after the exit.                                    *)
(***************************************************************************)
C9_ExitOnlyWhenIdle ==
  /\ (playwright /\ pc \in AfterLoop) => now - seen_grow > timeout_idle
  /\ pc = "scroll" => iter = <<0, 0>>
  /\ pc = "sleep" => iter = <<1, 0>>
  /\ pc \in {"check"} \cup AfterLoop => (playwright => iter = <<1, 1>>)
  /\ (fs.capture # Absent \/ Pos("write_capture") > 0) => pc \in AfterCapture

C9_Witness ==
  /\ pc = "close"
  /\ timeout_idle = 1
  /\ seen_grow > 0
  /\ seen_len = 2
  /\ now - seen_grow = 2
  /\ iter = <<1, 1>>

(***************************************************************************)
(* C10.  find_event_dicts returns the mappings that have a key event whose *)
(* value is a mapping, once per occurrence, in depth-first pre-order;      *)
(* parse_capture_to_events appends one extracted event per match, capture  *)
(* after capture, and counts every capture, the skipped ones too.          *)
(***************************************************************************)
RECURSIVE EventsOfCaptures(_)
EventsOfCaptures(caps) ==
  IF caps = <<>> THEN <<>>
  ELSE LET found == PreOrderMatches(Field(Head(caps), "body")) IN
       [i \in DOMAIN found |-> extract_event_fields(found[i])]
       \o EventsOfCaptures(Tail(caps))

C10_PreOrder ==
  /\ xfn = "find_event_dicts" => xres = JSeq(PreOrderMatches(xarg.v))
  /\ ParsedFile =>
       /\ xres.count = Len(xarg.v.items)
       /\ xres.events = EventsOfCaptures(xarg.v.items)

C10_Witness ==
  /\ xfn = "parse_capture_to_events"
  /\ xarg.v = JSeq(<<Capture(EmptyMap), Capture(WithChild(R_null, R_bare))>>)
  /\ xres.count = 2
  /\ Len(xres.events) = 2
  /\ xres.events[1] = extract_event_fields(WithChild(R_null, R_bare))

====
